---------------------------- MODULE Spec2Model ----------------------------
(***************************************************************************)
(* NL2SQL API: the SQL guardrail (is_safe_select,                          *)
(* references_only_allowed_table, ensure_limit), the /sql, /query and      *)
(* /query/retry handlers with the process-wide QUERY_STORE, and the        *)
(* replacement of the active dataset.                                      *)
(*                                                                         *)
(* A Python str is a sequence of one-character strings, so that strip,     *)
(* lower, startswith, the substring test and the regular expression        *)
(* \blimit\b are computed character by character, as the code does.        *)
(***************************************************************************)
EXTENDS Integers, Sequences, FiniteSets, TLC

VARIABLES
    store,        \* QUERY_STORE: query_id -> [question, sql, error, schema]
    nextId,       \* the next query_id uuid4 hands out (ids are 1, 2, ...)
    table,        \* the ds_active table of the DuckDB file
    resp,         \* what the last handler call answered, and what it did
    calls,        \* number of handler calls so far
    lastAttempt,  \* query_id -> outcome of its most recent execution
    cand,         \* the candidate SQL the guardrail study is run on
    disk,         \* the files: SAMPLE_CSV, ACTIVE_CSV and ACTIVE_META
    thr,          \* per worker thread: the request it serves and its locals
    conns,        \* per worker thread: connections it opened and not closed
    detached      \* records popped from QUERY_STORE that a thread still holds

vars == <<store, nextId, table, resp, calls, lastAttempt, cand,
          disk, thr, conns, detached>>

\* what the handlers that run start to end without a second thread leave alone
threadVars == <<thr, conns, detached>>

---------------------------------------------------------------------------
(* Bounds *)

MaxCalls == 3
MaxQueries == 2
MaxFrags == 3

---------------------------------------------------------------------------
(* Characters and Python str methods *)

UpperCase == <<"A","B","C","D","E","F","G","H","I","J","K","L","M",
               "N","O","P","Q","R","S","T","U","V","W","X","Y","Z">>
LowerCase == <<"a","b","c","d","e","f","g","h","i","j","k","l","m",
               "n","o","p","q","r","s","t","u","v","w","x","y","z">>
Digits == <<"0","1","2","3","4","5","6","7","8","9">>

Whitespace == {" ", "\t", "\n", "\r"}

Range(f) == {f[i] : i \in DOMAIN f}

\* the characters the regular expression class \w matches
WordChars == Range(UpperCase) \cup Range(LowerCase) \cup Range(Digits) \cup {"_"}

\* str.lower() on the letters it changes
UpperToLower ==
    [c \in Range(UpperCase) |-> LowerCase[CHOOSE i \in 1..26 : UpperCase[i] = c]]

\* str.lower() on one character
LowerChar(c) == IF c \in DOMAIN UpperToLower THEN UpperToLower[c] ELSE c

\* str.lower()
lower(s) == [i \in 1..Len(s) |-> LowerChar(s[i])]

\* str.lstrip() / str.rstrip() / str.strip(): drop surrounding whitespace
RECURSIVE lstrip(_)
lstrip(s) == IF s # <<>> /\ Head(s) \in Whitespace THEN lstrip(Tail(s)) ELSE s

RECURSIVE rstrip(_)
rstrip(s) ==
    IF s # <<>> /\ s[Len(s)] \in Whitespace
    THEN rstrip(SubSeq(s, 1, Len(s) - 1)) ELSE s

strip(s) == rstrip(lstrip(s))

\* str.rstrip(";"): drop every trailing semicolon
RECURSIVE rstripSemi(_)
rstripSemi(s) ==
    IF s # <<>> /\ s[Len(s)] = ";"
    THEN rstripSemi(SubSeq(s, 1, Len(s) - 1)) ELSE s

\* str.startswith(p)
startswith(s, p) == Len(s) >= Len(p) /\ \A j \in 1..Len(p) : s[j] = p[j]

\* the Python test  w in s  on two strings
contains(s, w) ==
    \E i \in 1..(Len(s) - Len(w) + 1) : \A j \in 1..Len(w) : s[i + j - 1] = w[j]

\* str(n) for a natural number n
RECURSIVE IntToStr(_)
IntToStr(n) ==
    IF n < 10 THEN <<Digits[n + 1]>>
    ELSE IntToStr(n \div 10) \o <<Digits[(n % 10) + 1]>>

---------------------------------------------------------------------------
(* Program constants *)

DEFAULT_LIMIT == 100

TABLE_NAME == <<"d", "s", "_", "a", "c", "t", "i", "v", "e">>

kw_select == <<"s", "e", "l", "e", "c", "t">>
kw_limit == <<"l", "i", "m", "i", "t">>

\* the blocklist of is_safe_select
blocked == <<
    <<"i", "n", "s", "e", "r", "t">>,
    <<"u", "p", "d", "a", "t", "e">>,
    <<"d", "e", "l", "e", "t", "e">>,
    <<"d", "r", "o", "p">>,
    <<"a", "l", "t", "e", "r">>,
    <<"c", "r", "e", "a", "t", "e">>,
    <<"a", "t", "t", "a", "c", "h">>,
    <<"c", "o", "p", "y">>,
    <<"p", "r", "a", "g", "m", "a">>,
    <<"i", "n", "s", "t", "a", "l", "l">>,
    <<"l", "o", "a", "d">>,
    <<"e", "x", "p", "o", "r", "t">> >>

\* the text " LIMIT " of the f-string of ensure_limit
LimitClause == <<" ", "L", "I", "M", "I", "T", " ">>

---------------------------------------------------------------------------
(* SQL guardrail: main.py, helper functions *)

is_safe_select_CaseSensitive(sql) ==
    LET s == strip(sql)
    IN  IF ~startswith(s, kw_select) THEN FALSE
        ELSE ~(\E k \in DOMAIN blocked : contains(s, blocked[k]))

\* is_safe_select(sql): starts with SELECT and holds no blocked word
is_safe_select(sql) ==
    LET s == lower(strip(sql))
    IN  IF ~startswith(s, kw_select) THEN FALSE
        ELSE ~(\E k \in DOMAIN blocked : contains(s, blocked[k]))

\* references_only_allowed_table(sql, allowed_table)
references_only_allowed_table(sql, allowed_table) ==
    LET lowerCaseRequest == lower(sql)
    IN  contains(lowerCaseRequest, lower(allowed_table))

\* re.search(r"\blimit\b", s, flags=re.IGNORECASE) is not None
re_search_limit(s) ==
    \E i \in 1..(Len(s) - 4) :
        /\ lower(SubSeq(s, i, i + 4)) = kw_limit
        /\ (i = 1 \/ s[i - 1] \notin WordChars)
        /\ (i + 5 > Len(s) \/ s[i + 5] \notin WordChars)

ensure_limit_NoStrip(sql, default_limit) ==
    LET strippedRequest == rstripSemi(sql)
    IN  IF re_search_limit(strippedRequest)
        THEN strippedRequest \o <<";">>
        ELSE strippedRequest \o LimitClause \o IntToStr(default_limit) \o <<";">>

\* ensure_limit(sql, default_limit)
ensure_limit(sql, default_limit) ==
    LET strippedRequest == rstripSemi(strip(sql))
    IN  IF re_search_limit(strippedRequest)
        THEN strippedRequest \o <<";">>
        ELSE strippedRequest \o LimitClause \o IntToStr(default_limit) \o <<";">>

---------------------------------------------------------------------------
(* The active dataset: db.py *)

\* DESCRIBE of the table read_csv_auto builds from the bundled demo CSV
DemoColumns == <<[name |-> "player", type |-> "VARCHAR"],
                 [name |-> "hits", type |-> "BIGINT"]>>

\* DESCRIBE of the table read_csv_auto builds from an uploaded CSV
UploadColumns == <<[name |-> "city", type |-> "VARCHAR"]>>

\* what a client may upload: a CSV read_csv_auto accepts, or one it rejects
Uploads == {[ok |-> TRUE, columns |-> UploadColumns, filename |-> "cities.csv"],
            [ok |-> FALSE, columns |-> <<>>, filename |-> "broken.csv"]}

NoTable == [exists |-> FALSE, columns |-> <<>>]

\* SAMPLE_CSV.name and ACTIVE_CSV.name
SAMPLE_NAME == "savant_data.csv"
ACTIVE_NAME == "active.csv"

\* a CSV file on disk: absent, or its content as read_csv_auto sees it
NoFile == [present |-> FALSE, ok |-> FALSE, columns |-> <<>>]
CsvFile(csv) == [present |-> TRUE, ok |-> csv.ok, columns |-> csv.columns]
CsvFiles == {NoFile} \cup {CsvFile(csv) : csv \in Uploads}

\* the bundled demo CSV
SampleCsv == [ok |-> TRUE, columns |-> DemoColumns, filename |-> SAMPLE_NAME]

\* ACTIVE_META: no file, text that is not JSON, JSON that is not an object
\* ([] or null), or an object; "" is a key that is missing or falsy
MetaObject(source, filename) ==
    [kind |-> "object", source |-> source, filename |-> filename]
MetaOther(kind) == [kind |-> kind, source |-> "", filename |-> ""]
Metas ==
    {MetaOther(kind) : kind \in {"absent", "notjson", "nonobject"}} \cup
    {MetaObject(source, filename) :
        source \in {"", "demo", "upload"},
        filename \in {"", SAMPLE_NAME, "cities.csv"}}

\* _write_active_metadata(source, filename): the sidecar it writes
_write_active_metadata(source, filename) == MetaObject(source, filename)

\* _read_active_metadata(): {} when the file is absent or json.loads raises
\* JSONDecodeError, whatever json.loads returned otherwise
_read_active_metadata(meta) ==
    IF meta.kind \in {"absent", "notjson"} THEN MetaObject("", "") ELSE meta

\* load_csv_as_active(csv_path, ...): the table it leaves behind.  The file
\* is there (raise before any statement otherwise); DROP TABLE IF EXISTS
\* runs first, then CREATE TABLE ... read_csv_auto, which raises on a CSV
\* it cannot read and leaves no table.
load_csv_as_active(pathExists, csv, old) ==
    IF ~pathExists THEN old
    ELSE IF csv.ok THEN [exists |-> TRUE, columns |-> csv.columns]
    ELSE NoTable

\* load_csv_as_active: whether it raises (FileNotFoundError, or the error
\* of read_csv_auto), and the sidecar it leaves: written after the
\* statements, with resolved_filename = filename or csv_path.name
load_csv_raises(pathExists, csv) == ~pathExists \/ ~csv.ok

load_csv_metadata(pathExists, csv, source, filename, path_name, old) ==
    IF load_csv_raises(pathExists, csv) THEN old
    ELSE _write_active_metadata(source, IF filename # "" THEN filename ELSE path_name)

\* get_active_schema(): DESCRIBE and COUNT, then the sidecar, then the
\* presence heuristic for a missing source or filename
get_active_schema(t, d) ==
    LET meta == _read_active_metadata(d.meta)
        source == IF meta.source # "" THEN meta.source
                  ELSE IF d.active.present THEN "upload" ELSE "demo"
        filename == IF meta.filename # "" THEN meta.filename
                    ELSE IF source = "upload" THEN ACTIVE_NAME ELSE SAMPLE_NAME
    IN  IF ~t.exists
        THEN [raised |-> "CatalogException", source |-> "", filename |-> "",
              columns |-> <<>>]
        ELSE IF meta.kind # "object"
        THEN [raised |-> "AttributeError", source |-> "", filename |-> "",
              columns |-> <<>>]
        ELSE [raised |-> "", source |-> source, filename |-> filename,
              columns |-> t.columns]

\* ensure_sample_loaded(): what it raises, and the table and the files it
\* leaves.  SAMPLE_CSV is checked first; a table that exists is kept; with
\* no table the uploaded CSV is loaded under the file name of the sidecar,
\* the demo CSV when there is no uploaded CSV.
ensure_sample_loaded(t, d) ==
    LET meta == _read_active_metadata(d.meta)
    IN  IF ~d.sample
        THEN [raised |-> "FileNotFoundError", table |-> t, disk |-> d]
        ELSE IF t.exists
        THEN [raised |-> "", table |-> t, disk |-> d]
        ELSE IF d.active.present /\ meta.kind # "object"
        THEN [raised |-> "AttributeError", table |-> t, disk |-> d]
        ELSE IF d.active.present
        THEN [raised |-> IF load_csv_raises(TRUE, d.active) THEN "IOException" ELSE "",
              table |-> load_csv_as_active(TRUE, d.active, t),
              disk |-> [d EXCEPT !.meta =
                          load_csv_metadata(TRUE, d.active, "upload",
                                            meta.filename, ACTIVE_NAME, d.meta)]]
        ELSE [raised |-> "",
              table |-> load_csv_as_active(TRUE, SampleCsv, t),
              disk |-> [d EXCEPT !.meta =
                          load_csv_metadata(TRUE, SampleCsv, "demo",
                                            SAMPLE_NAME, SAMPLE_NAME, d.meta)]]

\* the runtime directory of a first start: no database, no uploaded CSV, no
\* sidecar; the bundled CSV is there when the deployment shipped it
FreshDisk(sample) ==
    [sample |-> sample, active |-> NoFile, meta |-> MetaOther("absent")]

\* a thread of the pool that serves no request
Idle == [pc |-> "idle", op |-> "none"]
Threads == {"t1", "t2"}

\* schema_as_text(): "Table: ds_active" and one "- name (type)" line per
\* column, a line being the tuple of its parts
schema_as_text(t) ==
    <<<<"Table: ", TABLE_NAME>>>> \o
    [i \in 1..Len(t.columns) |-> <<"- ", t.columns[i].name, " (", t.columns[i].type, ")">>]

---------------------------------------------------------------------------
(* Inputs *)

Questions == {"top hitters", "count rows"}

\* str(e) of the exception duckdb raises
Errors == {"Binder Error: column not found", "Parser Error: syntax error"}

\* what con.execute does with a statement: it returns ("ok"), or raises an
\* exception whose str() is one of Errors
Outcomes == {"ok"} \cup Errors

\* SQL texts the generator (or a /sql client) may produce
c_limit ==
    <<"S", "E", "L", "E", "C", "T", " ", "p", "l", "a", "y", "e", "r", " ", "F", "R", "O", "M", " ", "d", "s", "_", "a", "c", "t", "i", "v", "e", " ", "L", "I", "M", "I", "T", " ", "5">>
c_nolimit ==
    <<" ", "s", "e", "l", "e", "c", "t", " ", "h", "i", "t", "s", " ", "f", "r", "o", "m", " ", "D", "S", "_", "A", "C", "T", "I", "V", "E", ";">>
c_unsafe ==
    <<"D", "R", "O", "P", " ", "T", "A", "B", "L", "E", " ", "d", "s", "_", "a", "c", "t", "i", "v", "e">>
c_wrong ==
    <<"s", "e", "l", "e", "c", "t", " ", "1", " ", "f", "r", "o", "m", " ", "o", "t", "h", "e", "r">>
c_blank ==
    <<" ", "\n">>
c_two ==
    <<"s", "e", "l", "e", "c", "t", " ", "1", " ", "f", "r", "o", "m", " ", "d", "s", "_", "a", "c", "t", "i", "v", "e", ";", " ", "s", "e", "l", "e", "c", "t", " ", "2", " ", "f", "r", "o", "m", " ", "d", "s", "_", "a", "c", "t", "i", "v", "e">>
c_quoted ==
    <<"s", "e", "l", "e", "c", "t", " ", "'", "l", "i", "m", "i", "t", "'", " ", "f", "r", "o", "m", " ", "d", "s", "_", "a", "c", "t", "i", "v", "e">>

Candidates == {c_limit, c_nolimit, c_unsafe, c_wrong, c_blank}

\* what generate_sql / repair_sql hand back: they raise (no JSON object in
\* the model output), or return a dict whose "sql" is missing or a string
LlmOutputs ==
    {[kind |-> "raise", sql |-> <<>>], [kind |-> "nosql", sql |-> <<>>]}
        \cup {[kind |-> "str", sql |-> s] : s \in Candidates}

\* pieces the guardrail study builds its SQL texts from
Frags == {
    <<"S", "e", "L", "e", "C", "t", " ", "x">>,
    <<" ", "f", "r", "o", "m", " ", "D", "s", "_", "A", "c", "t", "i", "v", "e">>,
    <<" ", "L", "i", "M", "i", "T", " ", "5">>,
    <<";">>,
    <<" ">>,
    <<"'", "l", "i", "m", "i", "t", "'">>,
    <<"d", "r">>,
    <<"O", "P">>,
    <<"_", "l", "i", "m", "i", "t">> }

RECURSIVE FragTexts(_)
FragTexts(n) ==
    IF n = 0 THEN {<<>>}
    ELSE LET shorter == FragTexts(n - 1)
         IN  shorter \cup {t \o f : t \in shorter, f \in Frags}

SqlInputs == FragTexts(MaxFrags) \cup Candidates \cup {c_two, c_quoted}

\* the two checks and the normalization of every text of SqlInputs, tabulated
guardrail ==
    [s \in SqlInputs |->
        [safe |-> is_safe_select(s),
         scoped |-> references_only_allowed_table(s, TABLE_NAME),
         limited |-> ensure_limit(s, DEFAULT_LIMIT)]]

---------------------------------------------------------------------------
(* State *)

NoSql == <<>>

\* a handler's answer, with the generator invocations (gen) and the
\* statements handed to con.execute (execd) of that call
Response(op, status, kind, query_id, retryable, candidate, sql, error, gen, execd) ==
    [op |-> op, status |-> status, kind |-> kind, query_id |-> query_id,
     retryable |-> retryable, candidate |-> candidate, sql |-> sql,
     error |-> error, gen |-> gen, execd |-> execd]

Init ==
    /\ store = [k \in {} |-> k]
    /\ nextId = 1
    /\ \E sample \in BOOLEAN :
          LET started == ensure_sample_loaded(NoTable, FreshDisk(sample))
          IN  table = started.table /\ disk = started.disk
    /\ resp = Response("none", 0, "none", 0, FALSE, NoSql, NoSql, "", <<>>, <<>>)
    /\ calls = 0
    /\ lastAttempt = [k \in 1..MaxQueries |-> "none"]
    /\ cand = NoSql
    /\ thr = [t \in Threads |-> Idle]
    /\ conns = [t \in Threads |-> 0]
    /\ detached = [k \in {} |-> k]

pop_Forgotten(st, query_id) == st

\* QUERY_STORE.pop(query_id, None)
pop(st, query_id) == [k \in (DOMAIN st) \ {query_id} |-> st[k]]

\* QUERY_STORE[query_id] = entry
put(st, query_id, entry) ==
    [k \in (DOMAIN st) \cup {query_id} |-> IF k = query_id THEN entry ELSE st[k]]

\* the arguments of one generate_sql / repair_sql invocation
GenCall(mode, schema_text, question, last_sql, error_message) ==
    [mode |-> mode, schema_text |-> schema_text, question |-> question,
     last_sql |-> last_sql, error_message |-> error_message]

---------------------------------------------------------------------------
(* POST /sql *)

run_sql_NoTableCheck(sql) ==
    /\ calls < MaxCalls
    /\ calls' = calls + 1
    /\ UNCHANGED <<store, nextId, table, lastAttempt, cand, disk, threadVars>>
    /\ IF ~guardrail[sql].safe
       THEN resp' = Response("run_sql", 400, "unsafe_sql", 0, FALSE, sql, sql, "", <<>>, <<>>)
       ELSE LET limited == guardrail[sql].limited
            IN  \E out \in Outcomes :
                IF out = "ok"
                THEN resp' = Response("run_sql", 200, "ok", 0, FALSE, sql,
                                      limited, "", <<>>, <<limited>>)
                ELSE resp' = Response("run_sql", 400, "sql_execution_error", 0, FALSE, sql,
                                      limited, out, <<>>, <<limited>>)

run_sql(sql) ==
    /\ calls < MaxCalls
    /\ calls' = calls + 1
    /\ UNCHANGED <<store, nextId, table, lastAttempt, cand, disk, threadVars>>
    /\ IF ~guardrail[sql].safe
       THEN resp' = Response("run_sql", 400, "unsafe_sql", 0, FALSE, sql, sql, "", <<>>, <<>>)
       ELSE IF ~guardrail[sql].scoped
       THEN resp' = Response("run_sql", 400, "wrong_table", 0, FALSE, sql, sql, "", <<>>, <<>>)
       ELSE LET limited == guardrail[sql].limited
            IN  \E out \in Outcomes :
                IF out = "ok"
                THEN resp' = Response("run_sql", 200, "ok", 0, FALSE, sql,
                                      limited, "", <<>>, <<limited>>)
                ELSE resp' = Response("run_sql", 400, "sql_execution_error", 0, FALSE, sql,
                                      limited, out, <<>>, <<limited>>)

---------------------------------------------------------------------------
(* POST /query *)

\* an exception leaves the handler before the guardrail: DESCRIBE raised in
\* schema_as_text, the generator raised, or "sql" is missing or blank
query_raised(status, kind, sql, gen) ==
    /\ resp' = Response("query", status, kind, 0, FALSE, sql, NoSql, "", gen, <<>>)
    /\ UNCHANGED <<store, lastAttempt>>

query_rejected_Stored(query_id, question, kind, sql, schema_text, gen) ==
    /\ resp' = Response("query", 200, kind, query_id, TRUE, sql, sql, "", gen, <<>>)
    /\ store' = put(store, query_id,
                    [question |-> question, sql |-> sql, error |-> kind,
                     schema |-> schema_text])
    /\ UNCHANGED lastAttempt

\* the guardrail rejects the generated SQL: ok False, retryable True
query_rejected(query_id, question, kind, sql, schema_text, gen) ==
    /\ resp' = Response("query", 200, kind, query_id, TRUE, sql, sql, "", gen, <<>>)
    /\ UNCHANGED <<store, lastAttempt>>

query_failed_AutoRepair(query_id, question, sql, limited, err_msg, schema_text, gen) ==
    /\ store' = put(store, query_id,
                    [question |-> question, sql |-> limited, error |-> err_msg,
                     schema |-> schema_text])
    /\ lastAttempt' = [lastAttempt EXCEPT ![query_id] = "ask_failed"]
    /\ resp' = Response("query", 200, "sql_execution_error", query_id, TRUE,
                        sql, limited, err_msg,
                        gen \o <<GenCall("repair", schema_text, question, limited, err_msg)>>,
                        <<limited, limited>>)

\* con.execute raised: "Store enough to retry"
query_failed(query_id, question, sql, limited, err_msg, schema_text, gen) ==
    /\ store' = put(store, query_id,
                    [question |-> question, sql |-> limited, error |-> err_msg,
                     schema |-> schema_text])
    /\ lastAttempt' = [lastAttempt EXCEPT ![query_id] = "ask_failed"]
    /\ resp' = Response("query", 200, "sql_execution_error", query_id, TRUE,
                        sql, limited, err_msg, gen, <<limited>>)

\* the statement ran: ok True
query_succeeded(query_id, sql, limited, gen) ==
    /\ UNCHANGED store
    /\ lastAttempt' = [lastAttempt EXCEPT ![query_id] = "ask_ok"]
    /\ resp' = Response("query", 200, "ok", query_id, FALSE, sql, limited, "",
                        gen, <<limited>>)

query(question, llm) ==
    /\ calls < MaxCalls
    /\ nextId <= MaxQueries
    /\ calls' = calls + 1
    /\ nextId' = nextId + 1
    /\ UNCHANGED <<table, cand, disk, threadVars>>
    /\ LET query_id == nextId
           schema_text == schema_as_text(table)
           gen == <<GenCall("generate", schema_text, question, NoSql, "")>>
           sql == llm.sql
       IN  IF ~table.exists
           THEN query_raised(500, "no_table", NoSql, <<>>)
           ELSE IF llm.kind = "raise"
           THEN query_raised(500, "malformed_model_output", NoSql, gen)
           ELSE IF llm.kind # "str" \/ strip(sql) = <<>>
           THEN query_raised(400, "invalid_sql", sql, gen)
           ELSE IF ~guardrail[sql].safe
           THEN query_rejected(query_id, question, "unsafe_sql", sql, schema_text, gen)
           ELSE IF ~guardrail[sql].scoped
           THEN query_rejected(query_id, question, "wrong_table", sql, schema_text, gen)
           ELSE LET limited == guardrail[sql].limited
                IN  \E out \in Outcomes :
                    IF out # "ok"
                    THEN query_failed(query_id, question, sql, limited, out,
                                      schema_text, gen)
                    ELSE query_succeeded(query_id, sql, limited, gen)

---------------------------------------------------------------------------
(* POST /query/retry *)

repair_sql_LiveSchema(saved) ==
    GenCall("repair", schema_as_text(table), saved.question, saved.sql, saved.error)

\* repair_sql(schema_text=saved["schema"], question=saved["question"],
\*            last_sql=saved["sql"], error_message=saved["error"])
repair_sql(saved) ==
    GenCall("repair", saved.schema, saved.question, saved.sql, saved.error)

retry_unknown_SetDefault(query_id) ==
    /\ resp' = Response("retry", 404, "UnknownQueryId", query_id, FALSE,
                        NoSql, NoSql, "", <<>>, <<>>)
    /\ store' = put(store, query_id,
                    [question |-> "", sql |-> NoSql, error |-> "", schema |-> <<>>])
    /\ UNCHANGED lastAttempt

\* QUERY_STORE.get(query_id) found nothing: 404
retry_unknown(query_id) ==
    /\ resp' = Response("retry", 404, "UnknownQueryId", query_id, FALSE,
                        NoSql, NoSql, "", <<>>, <<>>)
    /\ UNCHANGED <<store, lastAttempt>>

retry_rejected_Recorded(query_id, status, kind, candidate, sql, gen) ==
    /\ resp' = Response("retry", status, kind, query_id, FALSE, candidate, sql, "",
                        gen, <<>>)
    /\ store' = [store EXCEPT ![query_id].sql = sql, ![query_id].error = kind]
    /\ UNCHANGED lastAttempt

\* the repair raised, returned no usable "sql", or the guardrail rejected it
retry_rejected(query_id, status, kind, candidate, sql, gen) ==
    /\ resp' = Response("retry", status, kind, query_id, FALSE, candidate, sql, "",
                        gen, <<>>)
    /\ UNCHANGED <<store, lastAttempt>>

retry_failed_StaleError(query_id, sql, limited, err_msg, gen) ==
    /\ store' = [store EXCEPT ![query_id].sql = limited]
    /\ lastAttempt' = [lastAttempt EXCEPT ![query_id] = "retry_failed"]
    /\ resp' = Response("retry", 400, "sql_execution_error", query_id, FALSE,
                        sql, limited, err_msg, gen, <<limited>>)

\* con.execute raised: "Update store with new attempt for another retry"
retry_failed(query_id, sql, limited, err_msg, gen) ==
    /\ store' = [store EXCEPT ![query_id].sql = limited,
                              ![query_id].error = err_msg]
    /\ lastAttempt' = [lastAttempt EXCEPT ![query_id] = "retry_failed"]
    /\ resp' = Response("retry", 400, "sql_execution_error", query_id, FALSE,
                        sql, limited, err_msg, gen, <<limited>>)

\* the statement ran: the entry is removed, ok True
retry_succeeded(query_id, sql, limited, gen) ==
    /\ store' = pop(store, query_id)
    /\ lastAttempt' = [lastAttempt EXCEPT ![query_id] = "retry_ok"]
    /\ resp' = Response("retry", 200, "ok", query_id, FALSE, sql, limited, "",
                        gen, <<limited>>)

retry(query_id, llm) ==
    /\ calls < MaxCalls
    /\ calls' = calls + 1
    /\ UNCHANGED <<nextId, table, cand, disk, threadVars>>
    /\ IF query_id \notin DOMAIN store
       THEN retry_unknown(query_id)
       ELSE
       LET saved == store[query_id]
           gen == <<repair_sql(saved)>>
           sql == llm.sql
       IN  IF llm.kind = "raise"
           THEN retry_rejected(query_id, 500, "malformed_model_output", NoSql, NoSql, gen)
           ELSE IF llm.kind # "str" \/ strip(sql) = <<>>
           THEN retry_rejected(query_id, 400, "invalid_sql", sql, NoSql, gen)
           ELSE IF ~guardrail[sql].safe
           THEN retry_rejected(query_id, 400, "unsafe_sql", sql, sql, gen)
           ELSE IF ~guardrail[sql].scoped
           THEN retry_rejected(query_id, 400, "wrong_table", sql, sql, gen)
           ELSE LET limited == guardrail[sql].limited
                IN  \E out \in Outcomes :
                    IF out # "ok"
                    THEN retry_failed(query_id, sql, limited, out, gen)
                    ELSE retry_succeeded(query_id, sql, limited, gen)

---------------------------------------------------------------------------
(* POST /dataset/use-demo and POST /dataset/upload *)

\* the answer of a dataset handler: the metadata, or the exception of the load
DatasetResponse(op, raised) ==
    IF ~raised
    THEN Response(op, 200, "ok", 0, FALSE, NoSql, NoSql, "", <<>>, <<>>)
    ELSE Response(op, 500, "load_failed", 0, FALSE, NoSql, NoSql, "", <<>>, <<>>)

\* load_demo_as_active(): load_csv_as_active(SAMPLE_CSV, "demo", SAMPLE_CSV.name)
use_demo ==
    /\ calls < MaxCalls
    /\ calls' = calls + 1
    /\ table' = load_csv_as_active(disk.sample, SampleCsv, table)
    /\ disk' = [disk EXCEPT !.meta =
                   load_csv_metadata(disk.sample, SampleCsv, "demo", SAMPLE_NAME,
                                     SAMPLE_NAME, disk.meta)]
    /\ resp' = DatasetResponse("use_demo", load_csv_raises(disk.sample, SampleCsv))
    /\ UNCHANGED <<store, nextId, lastAttempt, cand, threadVars>>

\* the handler writes ACTIVE_CSV, then loads it as the upload
upload_dataset(file) ==
    /\ calls < MaxCalls
    /\ calls' = calls + 1
    /\ table' = load_csv_as_active(TRUE, file, table)
    /\ disk' = [disk EXCEPT !.active = CsvFile(file),
                            !.meta = load_csv_metadata(TRUE, file, "upload",
                                                       file.filename, ACTIVE_NAME,
                                                       disk.meta)]
    /\ resp' = DatasetResponse("upload_dataset", load_csv_raises(TRUE, file))
    /\ UNCHANGED <<store, nextId, lastAttempt, cand, threadVars>>

---------------------------------------------------------------------------
(* Specifications *)

QueryIds == 1..MaxQueries

\* the API under any sequence of requests
Next ==
    \/ \E sql \in Candidates : run_sql(sql)
    \/ \E question \in Questions, llm \in LlmOutputs : query(question, llm)
    \/ \E query_id \in QueryIds, llm \in LlmOutputs : retry(query_id, llm)
    \/ use_demo
    \/ \E file \in Uploads : upload_dataset(file)

Spec == Init /\ [][Next]_vars

\* the guardrail study: one request carrying a SQL text drawn from
\* SqlInputs (posted to /sql, or returned by the generator to /query or to
\* /query/retry) arrives after a first /query whose statement failed
FirstSql == guardrail[c_limit].limited
FirstError == "Binder Error: column not found"
FirstSchema == schema_as_text([exists |-> TRUE, columns |-> DemoColumns])

InitSQL ==
    /\ store = put([k \in {} |-> k], 1,
                   [question |-> "top hitters", sql |-> FirstSql,
                    error |-> FirstError, schema |-> FirstSchema])
    /\ nextId = 2
    /\ table = [exists |-> TRUE, columns |-> DemoColumns]
    /\ resp = Response("query", 200, "sql_execution_error", 1, TRUE, c_limit,
                       FirstSql, FirstError,
                       <<GenCall("generate", FirstSchema, "top hitters", NoSql, "")>>,
                       <<FirstSql>>)
    /\ calls = 1
    /\ lastAttempt = [k \in 1..MaxQueries |-> IF k = 1 THEN "ask_failed" ELSE "none"]
    /\ cand \in SqlInputs
    /\ disk = ensure_sample_loaded(NoTable, FreshDisk(TRUE)).disk
    /\ thr = [t \in Threads |-> Idle]
    /\ conns = [t \in Threads |-> 0]
    /\ detached = [k \in {} |-> k]

NextSQL ==
    \/ calls = 1 /\ run_sql(cand)
    \/ calls = 1 /\ query("count rows", [kind |-> "str", sql |-> cand])
    \/ calls = 1 /\ retry(1, [kind |-> "str", sql |-> cand])

SpecSQL == InitSQL /\ [][NextSQL]_vars

---------------------------------------------------------------------------
(* Vocabulary of the properties *)

\* a step that is one handler call
HandlerStep == calls' = calls + 1

\* word w (lower case) stands at position i of s, in any letter case
MatchAt(s, i, w) ==
    /\ i >= 1
    /\ i + Len(w) - 1 <= Len(s)
    /\ \A j \in 1..Len(w) : LowerChar(s[i + j - 1]) = w[j]

\* the first characters after the leading whitespace spell "select"
StartsWithSelect(s) ==
    \E a \in 1..Len(s) :
        /\ \A j \in 1..(a - 1) : s[j] \in Whitespace
        /\ s[a] \notin Whitespace
        /\ MatchAt(s, a, kw_select)

\* some denylisted keyword occurs somewhere in s, in any letter case
HasBlockedKeyword(s) ==
    \E k \in DOMAIN blocked : \E i \in 1..Len(s) : MatchAt(s, i, blocked[k])

\* check 1 of the guardrail rejects s
UnsafeSql(s) == ~StartsWithSelect(s) \/ HasBlockedKeyword(s)

\* check 2 of the guardrail rejects s
OutOfScope(s) == ~(\E i \in 1..Len(s) : MatchAt(s, i, TABLE_NAME))

\* "limit" stands at position i of s as a whole word
LimitWordAt(s, i) ==
    /\ MatchAt(s, i, kw_limit)
    /\ (i = 1 \/ s[i - 1] \notin WordChars)
    /\ (i + 5 > Len(s) \/ s[i + 5] \notin WordChars)

HasLimitToken(s) == \E i \in 1..Len(s) : LimitWordAt(s, i)

\* position i of s lies inside a '...' literal or a "..." identifier
InQuotes(s, i) ==
    \/ Cardinality({j \in 1..(i - 1) : s[j] = "'"}) % 2 = 1
    \/ Cardinality({j \in 1..(i - 1) : s[j] = "\""}) % 2 = 1

\* s carries a LIMIT clause: the word limit outside any quoted text
HasLimitClause(s) == \E i \in 1..Len(s) : LimitWordAt(s, i) /\ ~InQuotes(s, i)

Max(S) == CHOOSE x \in S : \A y \in S : y <= x
Min(S) == CHOOSE x \in S : \A y \in S : x <= y

\* s without its trailing semicolons
WithoutTrailingSemicolons(s) ==
    LET keep == {i \in 1..Len(s) : s[i] # ";"}
    IN  IF keep = {} THEN <<>> ELSE SubSeq(s, 1, Max(keep))

\* s without surrounding whitespace and then without trailing semicolons
TrimmedStatement(s) ==
    LET dark == {i \in 1..Len(s) : s[i] \notin Whitespace}
    IN  IF dark = {} THEN <<>>
        ELSE WithoutTrailingSemicolons(SubSeq(s, Min(dark), Max(dark)))

LimitSuffix == <<" ", "L", "I", "M", "I", "T", " ", "1", "0", "0", ";">>

Pending == DOMAIN store

---------------------------------------------------------------------------
\* what one handler call must do for the lifecycle of a pending query
C1_Step ==
    /\ (resp'.op = "query" /\ resp'.execd # <<>> /\ resp'.error \in Errors) =>
          /\ resp'.kind = "sql_execution_error"
          /\ resp'.retryable
          /\ resp'.query_id = nextId
          /\ nextId' > nextId
          /\ resp'.query_id \notin Pending
          /\ lastAttempt[resp'.query_id] = "none"
          /\ resp'.query_id \in Pending'
    /\ (resp'.op = "retry" /\ resp'.execd # <<>> /\ resp'.error \notin Errors) =>
          /\ resp'.kind = "ok"
          /\ resp'.status = 200
          /\ resp'.query_id \in Pending
          /\ resp'.query_id \notin Pending'
    /\ (resp'.op = "retry" /\ lastAttempt[resp'.query_id] = "retry_ok") =>
          /\ resp'.kind = "UnknownQueryId"
          /\ resp'.query_id \notin Pending'

(* C1: when /query produces SQL that passes the guardrail and fails at
   execution it answers ok false, retryable true, with a query_id never
   issued before, and that id becomes pending; a /query/retry whose
   repaired SQL executes answers ok and removes the entry; every later
   /query/retry of an id so resolved answers UnknownQueryId. *)
C1_PendingLifecycle == [][HandlerStep => C1_Step]_vars

\* ask failed at execution, a retry succeeded, a further retry was refused
C1_Witness ==
    /\ resp.op = "retry"
    /\ resp.kind = "UnknownQueryId"
    /\ lastAttempt[resp.query_id] = "retry_ok"

(* C2: /query/retry of a query_id with no pending entry answers
   UnknownQueryId (404), invokes no generator, executes no SQL and leaves
   the pending-query store as it was. *)
C2_UnknownQueryId ==
    [][(HandlerStep /\ resp'.op = "retry" /\ resp'.query_id \notin Pending) =>
          /\ resp'.kind = "UnknownQueryId"
          /\ resp'.status = 404
          /\ resp'.gen = <<>>
          /\ resp'.execd = <<>>
          /\ store' = store]_vars

\* an unknown id was retried while another query was pending
C2_Witness ==
    /\ resp.op = "retry"
    /\ resp.kind = "UnknownQueryId"
    /\ Pending # {}
    /\ resp.query_id \notin Pending

(* C3: a /query/retry whose repaired SQL is rejected before execution
   (sql missing or blank, unsafe_sql, wrong_table) ends that call with an
   error, executes nothing, and leaves the store, and so the pending entry
   of that query_id, exactly as it was. *)
C3_RejectedRepairFrame ==
    [][(HandlerStep /\ resp'.op = "retry"
          /\ resp'.kind \in {"invalid_sql", "unsafe_sql", "wrong_table"}) =>
          /\ resp'.status = 400
          /\ resp'.execd = <<>>
          /\ Len(resp'.gen) = 1
          /\ resp'.query_id \in Pending
          /\ resp'.query_id \in Pending'
          /\ store'[resp'.query_id] = store[resp'.query_id]
          /\ store' = store]_vars

\* a repair was rejected as wrong_table and its entry is still pending
C3_Witness ==
    /\ resp.op = "retry"
    /\ resp.kind = "wrong_table"
    /\ resp.query_id \in Pending
    /\ store[resp.query_id].sql # resp.sql

(* C4: when the repaired SQL of a /query/retry passes the guardrail and
   fails at execution, the entry stays pending, its sql and error become
   the statement just executed (the normalized repair) and the new backend
   message, its question and schema are unchanged, and the call answers an
   error after one generator invocation and one execution. *)
C4_FailedRepairOverwrites ==
    [][(HandlerStep /\ resp'.op = "retry" /\ resp'.execd # <<>>
          /\ resp'.error \in Errors) =>
          LET id == resp'.query_id IN
          /\ id \in Pending /\ id \in Pending'
          /\ store'[id].sql = resp'.execd[1]
          /\ store'[id].sql = TrimmedStatement(resp'.candidate)
                                 \o (IF HasLimitToken(resp'.candidate)
                                     THEN <<";">> ELSE LimitSuffix)
          /\ store'[id].error = resp'.error
          /\ store'[id].question = store[id].question
          /\ store'[id].schema = store[id].schema
          /\ \A other \in Pending \ {id} :
                other \in Pending' /\ store'[other] = store[other]
          /\ Pending' = Pending
          /\ resp'.kind = "sql_execution_error"
          /\ resp'.status = 400
          /\ Len(resp'.gen) = 1
          /\ Len(resp'.execd) = 1]_vars

\* a repair failed at execution with another statement and another message
\* than the attempt before it, after the dataset had been replaced
C4_Witness ==
    /\ resp.op = "retry"
    /\ resp.kind = "sql_execution_error"
    /\ resp.query_id \in Pending
    /\ store[resp.query_id].sql # resp.gen[1].last_sql
    /\ store[resp.query_id].error # resp.gen[1].error_message
    /\ store[resp.query_id].schema # schema_as_text(table)

\* the only steps that add or remove a pending entry
C5_Step ==
    /\ \A id \in Pending' \ Pending :
          /\ resp'.op = "query" /\ resp'.query_id = id
          /\ resp'.execd # <<>> /\ resp'.error \in Errors
    /\ \A id \in Pending \ Pending' :
          /\ resp'.op = "retry" /\ resp'.query_id = id
          /\ resp'.execd # <<>> /\ resp'.kind = "ok"

(* C5: in every state a query_id is pending exactly when its most recent
   execution attempt failed; /query adds an entry only when its execution
   fails and only a /query/retry whose execution succeeds removes one. *)
C5_PendingIffLastFailed ==
    /\ [](\A id \in QueryIds :
             id \in Pending <=> lastAttempt[id] \in {"ask_failed", "retry_failed"})
    /\ [][C5_Step]_vars

\* one id resolved by a successful retry, another pending after a failed ask
C5_Witness ==
    \E a, b \in QueryIds :
        /\ lastAttempt[a] = "retry_ok" /\ a \notin Pending
        /\ lastAttempt[b] = "ask_failed" /\ b \in Pending

(* C6: /sql, /query and /query/retry hand a statement to con.execute only
   when the candidate it was built from passed the safe-SELECT check and
   the table-scope check; the statement executed passes both as well. *)
C6_GuardBeforeExecute ==
    \A i \in DOMAIN resp.execd :
        /\ ~UnsafeSql(resp.candidate)
        /\ ~OutOfScope(resp.candidate)
        /\ ~UnsafeSql(resp.execd[i])
        /\ ~OutOfScope(resp.execd[i])

\* a repaired statement was executed
C6_Witness ==
    /\ resp.op = "retry"
    /\ resp.execd # <<>>
    /\ ~UnsafeSql(resp.candidate)
    /\ ~OutOfScope(resp.candidate)

(* C7: every statement accepted by the guardrail and executed is a single
   statement: it holds no ';' other than its one trailing terminator. *)
C7_SingleStatement ==
    \A i \in DOMAIN resp.execd :
        \A j \in 1..(Len(resp.execd[i]) - 1) : resp.execd[i][j] # ";"

(* C8: the safe-SELECT check rejects a SQL text exactly when, trimmed and
   lower-cased, it does not start with "select" or holds one of the twelve
   denylisted keywords as a substring, in whatever letter case the keyword
   is written; /sql answers unsafe_sql in exactly those cases, and /query
   and /query/retry never let such a text past the check. *)
C8_UnsafeExactly ==
    /\ is_safe_select(cand) <=> ~UnsafeSql(cand)
    /\ resp.op = "run_sql" =>
          (resp.kind = "unsafe_sql" <=> UnsafeSql(resp.candidate))
    /\ resp.kind = "unsafe_sql" => UnsafeSql(resp.candidate)
    /\ resp.kind \in {"wrong_table", "sql_execution_error", "ok"} =>
          ~UnsafeSql(resp.candidate)

\* /sql refused a SELECT that spells a denylisted keyword in mixed case
C8_Witness ==
    /\ resp.op = "run_sql"
    /\ resp.kind = "unsafe_sql"
    /\ StartsWithSelect(resp.candidate)
    /\ contains(resp.candidate, <<"d", "r", "O", "P">>)

(* C9 as stated: a validated statement without a whole-word limit token is
   normalized to the statement with its trailing ';' stripped followed by
   " LIMIT 100;", one with a limit token to the statement with its
   trailing ';' stripped followed by ";", and normalizing the result again
   returns it unchanged. *)
C9_Original ==
    \A i \in DOMAIN resp.execd :
        /\ resp.execd[i] = WithoutTrailingSemicolons(resp.candidate)
                              \o (IF HasLimitToken(resp.candidate)
                                  THEN <<";">> ELSE LimitSuffix)
        /\ ensure_limit(resp.execd[i], DEFAULT_LIMIT) = resp.execd[i]

(* C9 amended: a validated statement is first trimmed of surrounding
   whitespace and then of all its trailing ';'; without a whole-word limit
   token (any case) the result is that text followed by exactly
   " LIMIT 100;", with one it is that text followed by ";"; normalizing
   the result again returns it unchanged. *)
C9_Normalization ==
    \A i \in DOMAIN resp.execd :
        /\ resp.execd[i] = TrimmedStatement(resp.candidate)
                              \o (IF HasLimitToken(resp.candidate)
                                  THEN <<";">> ELSE LimitSuffix)
        /\ ensure_limit(resp.execd[i], DEFAULT_LIMIT) = resp.execd[i]

\* a statement with leading whitespace, a trailing ';' and no limit token
\* was normalized and executed
C9_Witness ==
    /\ resp.execd # <<>>
    /\ resp.candidate = c_nolimit
    /\ ~HasLimitToken(resp.candidate)

(* C10: every statement executed by /sql, /query or /query/retry carries
   an effective LIMIT clause, its own or the injected LIMIT 100: the word
   limit outside any string literal or quoted identifier. *)
C10_LimitClause ==
    \A i \in DOMAIN resp.execd : HasLimitClause(resp.execd[i])

---------------------------------------------------------------------------
(* The active dataset and the retry contract under requests served one
   after another (Spec) *)

\* a use-demo or upload call was served by this step
DatasetStep == HandlerStep /\ resp'.op \in {"use_demo", "upload_dataset"}

(* C12: once initialization has succeeded, an active dataset exists in
   every state reached by use-demo and upload calls, the failing ones
   included: a load that fails leaves the previous active table in place. *)
C12_ActiveDatasetKept ==
    [][(DatasetStep /\ table.exists) =>
          /\ table'.exists
          /\ resp'.status # 200 => table' = table]_vars

(* C15: no retry is automatic: one ask call invokes the generator exactly
   once and executes at most one statement, one retry call invokes the
   repair generator at most once and executes at most one statement. *)
C15_Original ==
    /\ resp.op = "query" => Len(resp.gen) = 1 /\ Len(resp.execd) <= 1
    /\ resp.op = "retry" => Len(resp.gen) <= 1 /\ Len(resp.execd) <= 1

(* C15 amended: one ask call invokes the generator at most once: exactly
   once, in generate mode, when the active table exists, and not at all
   when it does not (the schema read fails first); one retry call invokes
   the generator exactly once, in repair mode, when the id is pending and
   not at all otherwise; either call executes at most one statement, and
   none without having invoked the generator. *)
C15_NoAutomaticRetry ==
    [][HandlerStep =>
          /\ resp'.op = "query" =>
                /\ Len(resp'.gen) = (IF table.exists THEN 1 ELSE 0)
                /\ \A i \in DOMAIN resp'.gen : resp'.gen[i].mode = "generate"
          /\ resp'.op = "retry" =>
                /\ Len(resp'.gen) = (IF resp'.query_id \in Pending THEN 1 ELSE 0)
                /\ \A i \in DOMAIN resp'.gen : resp'.gen[i].mode = "repair"
          /\ Len(resp'.execd) <= Len(resp'.gen) \/ resp'.op = "run_sql"
          /\ Len(resp'.execd) <= 1]_vars

\* an ask whose one statement failed returned without a second attempt
C15_Witness ==
    /\ resp.op = "query"
    /\ resp.kind = "sql_execution_error"
    /\ Len(resp.gen) = 1
    /\ Len(resp.execd) = 1

\* the arguments of the generator call a retry made for a stored record
RepairContext(entry) ==
    [mode |-> "repair", schema_text |-> entry.schema, question |-> entry.question,
     last_sql |-> entry.sql, error_message |-> entry.error]

\* the arguments of the generator call of the ask that recorded the entry
AskContext(entry) ==
    [mode |-> "generate", schema_text |-> entry.schema, question |-> entry.question,
     last_sql |-> NoSql, error_message |-> ""]

(* C17: each retry invokes the generator in repair mode with exactly the
   stored context of its query_id: the question and the schema snapshot
   are those the originating ask passed to the generator and never change
   while the entry is pending, whatever repairs fail and whatever dataset
   is loaded in between; the sql and the error are those of the most
   recent failed execution for that id. *)
C17_RepairContext ==
    [][HandlerStep =>
          /\ (resp'.op = "retry" /\ resp'.gen # <<>>) =>
                /\ resp'.query_id \in Pending
                /\ resp'.gen = <<RepairContext(store[resp'.query_id])>>
          /\ \A k \in Pending' \ Pending :
                /\ resp'.op = "query" /\ resp'.query_id = k
                /\ resp'.gen = <<AskContext(store'[k])>>
                /\ resp'.execd = <<store'[k].sql>>
                /\ resp'.error = store'[k].error
          /\ \A k \in Pending \cap Pending' :
                /\ store'[k].question = store[k].question
                /\ store'[k].schema = store[k].schema
                /\ IF resp'.op = "retry" /\ resp'.query_id = k /\ resp'.execd # <<>>
                   THEN /\ resp'.execd = <<store'[k].sql>>
                        /\ resp'.error = store'[k].error
                   ELSE /\ store'[k].sql = store[k].sql
                        /\ store'[k].error = store[k].error]_vars

\* a retry called the generator with a schema snapshot that is no longer
\* the schema of the active table: the dataset was replaced after the ask
C17_Witness ==
    /\ resp.op = "retry"
    /\ resp.gen # <<>>
    /\ table.exists
    /\ resp.gen[1].schema_text # schema_as_text(table)

(* C18: whenever ask returns a failure marked retryable together with a
   query_id, that query_id has a pending entry, so that a following retry
   is not answered UnknownQueryId. *)
C18_RetryableIsPending ==
    (resp.op = "query" /\ resp.retryable) => resp.query_id \in Pending

---------------------------------------------------------------------------
(* Startup and GET /schema over the files a process may find *)

\* what a start of the process did: the exception startup() printed, if any
StartupResponse(raised) ==
    Response("startup", 0, IF raised = "" THEN "ok" ELSE "skipped", 0, FALSE,
             NoSql, NoSql, raised, <<>>, <<>>)

\* the answer of GET /schema: the dict of get_active_schema, or the 500 of
\* the exception it raised
SchemaResponse(result) ==
    [op |-> "schema", status |-> IF result.raised = "" THEN 200 ELSE 500,
     kind |-> IF result.raised = "" THEN "ok" ELSE "internal_error",
     query_id |-> 0, retryable |-> FALSE, candidate |-> NoSql, sql |-> NoSql,
     error |-> result.raised, gen |-> <<>>, execd |-> <<>>,
     dataset |-> [source |-> result.source, filename |-> result.filename,
                  columns |-> result.columns]]

\* startup(): ensure_sample_loaded() inside try/except Exception
startup ==
    /\ calls < MaxCalls
    /\ calls' = calls + 1
    /\ LET started == ensure_sample_loaded(table, disk)
       IN  /\ table' = started.table
           /\ disk' = started.disk
           /\ resp' = StartupResponse(started.raised)
    /\ UNCHANGED <<store, nextId, lastAttempt, cand, threadVars>>

\* schema(): return get_active_schema()
schema ==
    /\ calls < MaxCalls
    /\ calls' = calls + 1
    /\ resp' = SchemaResponse(get_active_schema(table, disk))
    /\ UNCHANGED <<store, nextId, table, lastAttempt, cand, disk, threadVars>>

\* the tables the DuckDB file of an earlier process may hold
Tables == {NoTable} \cup
          {[exists |-> TRUE, columns |-> columns] : columns \in {DemoColumns, UploadColumns}}

\* a process is started on a runtime directory in any state
InitData ==
    /\ store = [k \in {} |-> k]
    /\ nextId = 1
    /\ table \in Tables
    /\ disk \in [sample : BOOLEAN, active : CsvFiles, meta : Metas]
    /\ resp = Response("none", 0, "none", 0, FALSE, NoSql, NoSql, "", <<>>, <<>>)
    /\ calls = 0
    /\ lastAttempt = [k \in 1..MaxQueries |-> "none"]
    /\ cand = NoSql
    /\ thr = [t \in Threads |-> Idle]
    /\ conns = [t \in Threads |-> 0]
    /\ detached = [k \in {} |-> k]

\* starts (a restart runs startup again) and dataset requests
NextData ==
    \/ startup
    \/ schema
    \/ use_demo
    \/ \E file \in Uploads : upload_dataset(file)

SpecData == InitData /\ [][NextData]_vars

\* the source and the file name the sidecar holds: "" when the file is
\* absent, is not JSON, is not a JSON object, or lacks the key
RecordedSource == IF disk.meta.kind = "object" THEN disk.meta.source ELSE ""
RecordedFilename == IF disk.meta.kind = "object" THEN disk.meta.filename ELSE ""

\* the presence heuristic: an uploaded file on disk gives upload, else demo
HeuristicSource == IF disk.active.present THEN "upload" ELSE "demo"
HeuristicFilename(source) == IF source = "upload" THEN "active.csv" ELSE "savant_data.csv"

(* C13: current_schema never fails because of the sidecar metadata: with
   an active table, for every state of the metadata file (absent, not
   JSON, JSON that is not an object, an object lacking source or filename)
   it returns the columns of the table with the recorded source and file
   name, and the presence heuristic in place of whatever is not recorded. *)
C13_MetadataNeverFails ==
    [][(HandlerStep /\ resp'.op = "schema" /\ table.exists) =>
          /\ resp'.status = 200
          /\ resp'.dataset.columns = table.columns
          /\ resp'.dataset.source =
                (IF RecordedSource # "" THEN RecordedSource ELSE HeuristicSource)
          /\ resp'.dataset.filename =
                (IF RecordedFilename # "" THEN RecordedFilename
                 ELSE HeuristicFilename(resp'.dataset.source))]_vars

\* a start of the process was served by this step
StartupStep == HandlerStep /\ resp'.op = "startup"

(* C14: ensure_initialized is idempotent: with an active table it leaves
   the table and the sidecar unchanged and does not fail; with none it
   loads the uploaded CSV when one is on disk and the bundled demo CSV
   otherwise; a second call in a row changes nothing. *)
C14_EnsureInitialized ==
    [][StartupStep =>
          /\ table.exists =>
                table' = table /\ disk' = disk /\ resp'.kind = "ok"
          /\ (~table.exists /\ disk.active.present /\ disk.active.ok) =>
                table' = [exists |-> TRUE, columns |-> disk.active.columns]
          /\ (~table.exists /\ ~disk.active.present /\ disk.sample) =>
                table' = [exists |-> TRUE, columns |-> DemoColumns]
          /\ resp.op = "startup" => table' = table /\ disk' = disk]_vars

---------------------------------------------------------------------------
(* POST /query/retry statement by statement: the handlers are plain def
   functions, which FastAPI runs in a thread pool, so that two requests
   interleave between any two statements *)

\* the dict object "saved" refers to: QUERY_STORE.get returns a reference,
\* which stays valid after the key was popped.  One dict is ever created
\* per query_id, so the id names the object.
saved_dict(query_id) ==
    IF query_id \in DOMAIN store THEN store[query_id] ELSE detached[query_id]

\* the locals of a thread serving /query/retry
RetryLocals(pc, query_id, status, kind) ==
    [pc |-> pc, op |-> "retry", query_id |-> query_id, schema_text |-> <<>>,
     question |-> "", last_sql |-> NoSql, error_message |-> "",
     sql |-> NoSql, error |-> "", status |-> status, kind |-> kind]

\* the thread returns: the answer, with no further statement to run
Return(locals, status, kind) ==
    [locals EXCEPT !.pc = "done", !.status = status, !.kind = kind]

\* saved = QUERY_STORE.get(req.query_id); if not saved: raise 404
retry_lookup(t, query_id) ==
    /\ thr[t].pc = "idle"
    /\ calls < MaxCalls
    /\ calls' = calls + 1
    /\ thr' = [thr EXCEPT ![t] =
                 IF query_id \in DOMAIN store
                 THEN RetryLocals("read_sql", query_id, 0, "")
                 ELSE RetryLocals("done", query_id, 404, "UnknownQueryId")]
    /\ UNCHANGED <<store, nextId, table, resp, lastAttempt, cand, disk, conns, detached>>

\* schema_text = saved["schema"]; question = saved["question"];
\* last_sql = saved["sql"]
retry_read_sql(t) ==
    /\ thr[t].pc = "read_sql" /\ thr[t].op = "retry"
    /\ LET saved == saved_dict(thr[t].query_id)
       IN  thr' = [thr EXCEPT ![t].pc = "read_error",
                              ![t].schema_text = saved.schema,
                              ![t].question = saved.question,
                              ![t].last_sql = saved.sql]
    /\ UNCHANGED <<store, nextId, table, resp, calls, lastAttempt, cand, disk, conns,
                   detached>>

\* error_message = saved["error"]
retry_read_error(t) ==
    /\ thr[t].pc = "read_error" /\ thr[t].op = "retry"
    /\ thr' = [thr EXCEPT ![t].pc = "repair",
                          ![t].error_message = saved_dict(thr[t].query_id).error]
    /\ UNCHANGED <<store, nextId, table, resp, calls, lastAttempt, cand, disk, conns,
                   detached>>

\* llm = repair_sql(...), the check of "sql", the guardrail, ensure_limit
retry_repair(t, llm) ==
    /\ thr[t].pc = "repair" /\ thr[t].op = "retry"
    /\ thr' = [thr EXCEPT ![t] =
                 IF llm.kind = "raise"
                 THEN Return(@, 500, "malformed_model_output")
                 ELSE IF llm.kind # "str" \/ strip(llm.sql) = <<>>
                 THEN Return(@, 400, "invalid_sql")
                 ELSE IF ~guardrail[llm.sql].safe
                 THEN Return(@, 400, "unsafe_sql")
                 ELSE IF ~guardrail[llm.sql].scoped
                 THEN Return(@, 400, "wrong_table")
                 ELSE [@ EXCEPT !.pc = "execute", !.sql = guardrail[llm.sql].limited]]
    /\ UNCHANGED <<store, nextId, table, resp, calls, lastAttempt, cand, disk, conns,
                   detached>>

\* con = get_conn(); con.execute(sql) and the fetch, or the exception
retry_execute(t, out) ==
    /\ thr[t].pc = "execute" /\ thr[t].op = "retry"
    /\ conns' = [conns EXCEPT ![t] = @ + 1]
    /\ thr' = [thr EXCEPT ![t].pc = IF out = "ok" THEN "close" ELSE "write_sql",
                          ![t].error = IF out = "ok" THEN "" ELSE out]
    /\ lastAttempt' = [lastAttempt EXCEPT ![thr[t].query_id] =
                          IF out = "ok" THEN "retry_ok" ELSE "retry_failed"]
    /\ UNCHANGED <<store, nextId, table, resp, calls, cand, disk, detached>>

retry_write_sql_Reinsert(t) ==
    /\ thr[t].pc = "write_sql" /\ thr[t].op = "retry"
    /\ LET query_id == thr[t].query_id
       IN  /\ store' = put(store, query_id,
                           [saved_dict(query_id) EXCEPT !.sql = thr[t].sql])
           /\ detached' = pop(detached, query_id)
    /\ thr' = [thr EXCEPT ![t].pc = "write_error"]
    /\ UNCHANGED <<nextId, table, resp, calls, lastAttempt, cand, disk, conns>>

\* saved["sql"] = sql: a write to the dict object, in the store or not
retry_write_sql(t) ==
    /\ thr[t].pc = "write_sql" /\ thr[t].op = "retry"
    /\ LET query_id == thr[t].query_id
       IN  IF query_id \in DOMAIN store
           THEN /\ store' = [store EXCEPT ![query_id].sql = thr[t].sql]
                /\ UNCHANGED detached
           ELSE /\ detached' = [detached EXCEPT ![query_id].sql = thr[t].sql]
                /\ UNCHANGED store
    /\ thr' = [thr EXCEPT ![t].pc = "write_error"]
    /\ UNCHANGED <<nextId, table, resp, calls, lastAttempt, cand, disk, conns>>

\* saved["error"] = str(e); raise HTTPException(400), which runs the finally
retry_write_error(t) ==
    /\ thr[t].pc = "write_error" /\ thr[t].op = "retry"
    /\ LET query_id == thr[t].query_id
       IN  IF query_id \in DOMAIN store
           THEN /\ store' = [store EXCEPT ![query_id].error = thr[t].error]
                /\ UNCHANGED detached
           ELSE /\ detached' = [detached EXCEPT ![query_id].error = thr[t].error]
                /\ UNCHANGED store
    /\ thr' = [thr EXCEPT ![t].pc = "close"]
    /\ UNCHANGED <<nextId, table, resp, calls, lastAttempt, cand, disk, conns>>

\* finally: con.close(); the 400 propagates, or the handler goes on to pop
retry_close(t) ==
    /\ thr[t].pc = "close" /\ thr[t].op = "retry"
    /\ conns' = [conns EXCEPT ![t] = @ - 1]
    /\ thr' = [thr EXCEPT ![t] =
                 IF @.error # "" THEN Return(@, 400, "sql_execution_error")
                 ELSE [@ EXCEPT !.pc = "pop"]]
    /\ UNCHANGED <<store, nextId, table, resp, calls, lastAttempt, cand, disk, detached>>

\* QUERY_STORE.pop(req.query_id, None); return ok True.  The dict stays
\* alive for the threads that hold it.
retry_pop(t) ==
    /\ thr[t].pc = "pop" /\ thr[t].op = "retry"
    /\ LET query_id == thr[t].query_id
       IN  /\ store' = pop(store, query_id)
           /\ detached' = IF query_id \in DOMAIN store
                          THEN put(detached, query_id, store[query_id])
                          ELSE detached
    /\ thr' = [thr EXCEPT ![t] = Return(@, 200, "ok")]
    /\ UNCHANGED <<nextId, table, resp, calls, lastAttempt, cand, disk, conns>>

\* one statement of a thread serving /query/retry
retry_step(t) ==
    \/ \E query_id \in QueryIds : retry_lookup(t, query_id)
    \/ retry_read_sql(t)
    \/ retry_read_error(t)
    \/ \E llm \in LlmOutputs : retry_repair(t, llm)
    \/ \E out \in Outcomes : retry_execute(t, out)
    \/ retry_write_sql(t)
    \/ retry_write_error(t)
    \/ retry_close(t)
    \/ retry_pop(t)

---------------------------------------------------------------------------
(* POST /query statement by statement *)

\* the locals of a thread serving /query
QueryLocals(pc, query_id, question) ==
    [pc |-> pc, op |-> "query", query_id |-> query_id, schema_text |-> <<>>,
     question |-> question, last_sql |-> NoSql, error_message |-> "",
     sql |-> NoSql, error |-> "", status |-> 0, kind |-> ""]

\* query_id = str(uuid.uuid4())
query_begin(t, question) ==
    /\ thr[t].pc = "idle"
    /\ calls < MaxCalls
    /\ nextId <= MaxQueries
    /\ calls' = calls + 1
    /\ nextId' = nextId + 1
    /\ thr' = [thr EXCEPT ![t] = QueryLocals("describe", nextId, question)]
    /\ UNCHANGED <<store, table, resp, lastAttempt, cand, disk, conns, detached>>

\* schema_as_text(): con = get_conn(); DESCRIBE ds_active, which raises
\* when there is no table
query_describe(t) ==
    /\ thr[t].pc = "describe" /\ thr[t].op = "query"
    /\ conns' = [conns EXCEPT ![t] = @ + 1]
    /\ thr' = [thr EXCEPT ![t].pc = "describe_close",
                          ![t].schema_text = IF table.exists THEN schema_as_text(table)
                                             ELSE <<>>,
                          ![t].error = IF table.exists THEN "" ELSE "CatalogException"]
    /\ UNCHANGED <<store, nextId, table, resp, calls, lastAttempt, cand, disk, detached>>

\* schema_as_text(): finally: con.close()
query_describe_close(t) ==
    /\ thr[t].pc = "describe_close" /\ thr[t].op = "query"
    /\ conns' = [conns EXCEPT ![t] = @ - 1]
    /\ thr' = [thr EXCEPT ![t] =
                 IF @.error # "" THEN Return(@, 500, "no_table")
                 ELSE [@ EXCEPT !.pc = "generate"]]
    /\ UNCHANGED <<store, nextId, table, resp, calls, lastAttempt, cand, disk, detached>>

\* llm = generate_sql(...), the check of "sql", the guardrail, ensure_limit
query_generate(t, llm) ==
    /\ thr[t].pc = "generate" /\ thr[t].op = "query"
    /\ thr' = [thr EXCEPT ![t] =
                 IF llm.kind = "raise"
                 THEN Return(@, 500, "malformed_model_output")
                 ELSE IF llm.kind # "str" \/ strip(llm.sql) = <<>>
                 THEN Return(@, 400, "invalid_sql")
                 ELSE IF ~guardrail[llm.sql].safe
                 THEN Return(@, 200, "unsafe_sql")
                 ELSE IF ~guardrail[llm.sql].scoped
                 THEN Return(@, 200, "wrong_table")
                 ELSE [@ EXCEPT !.pc = "execute", !.sql = guardrail[llm.sql].limited]]
    /\ UNCHANGED <<store, nextId, table, resp, calls, lastAttempt, cand, disk, conns,
                   detached>>

\* con = get_conn(); con.execute(sql) and the fetch, or the exception
query_execute(t, out) ==
    /\ thr[t].pc = "execute" /\ thr[t].op = "query"
    /\ conns' = [conns EXCEPT ![t] = @ + 1]
    /\ thr' = [thr EXCEPT ![t].pc = IF out = "ok" THEN "close" ELSE "store",
                          ![t].error = IF out = "ok" THEN "" ELSE out]
    /\ lastAttempt' = [lastAttempt EXCEPT ![thr[t].query_id] =
                          IF out = "ok" THEN "ask_ok" ELSE "ask_failed"]
    /\ UNCHANGED <<store, nextId, table, resp, calls, cand, disk, detached>>

\* QUERY_STORE[query_id] = {question, sql, error, schema}
query_store(t) ==
    /\ thr[t].pc = "store" /\ thr[t].op = "query"
    /\ store' = put(store, thr[t].query_id,
                    [question |-> thr[t].question, sql |-> thr[t].sql,
                     error |-> thr[t].error, schema |-> thr[t].schema_text])
    /\ thr' = [thr EXCEPT ![t].pc = "close"]
    /\ UNCHANGED <<nextId, table, resp, calls, lastAttempt, cand, disk, conns, detached>>

\* finally: con.close(); return ok True, or ok False with retryable True
query_close(t) ==
    /\ thr[t].pc = "close" /\ thr[t].op = "query"
    /\ conns' = [conns EXCEPT ![t] = @ - 1]
    /\ thr' = [thr EXCEPT ![t] =
                 Return(@, 200, IF @.error # "" THEN "sql_execution_error" ELSE "ok")]
    /\ UNCHANGED <<store, nextId, table, resp, calls, lastAttempt, cand, disk, detached>>

\* one statement of a thread serving /query
query_step(t) ==
    \/ \E question \in Questions : query_begin(t, question)
    \/ query_describe(t)
    \/ query_describe_close(t)
    \/ \E llm \in LlmOutputs : query_generate(t, llm)
    \/ \E out \in Outcomes : query_execute(t, out)
    \/ query_store(t)
    \/ query_close(t)

---------------------------------------------------------------------------
(* Two requests in flight over one pending entry *)

\* a first /query has failed at execution and left its entry; no thread
\* serves a request yet
InitRetry ==
    /\ store = put([k \in {} |-> k], 1,
                   [question |-> "top hitters", sql |-> FirstSql,
                    error |-> FirstError, schema |-> FirstSchema])
    /\ nextId = 2
    /\ table = [exists |-> TRUE, columns |-> DemoColumns]
    /\ resp = Response("query", 200, "sql_execution_error", 1, TRUE, c_limit,
                       FirstSql, FirstError,
                       <<GenCall("generate", FirstSchema, "top hitters", NoSql, "")>>,
                       <<FirstSql>>)
    /\ calls = 1
    /\ lastAttempt = [k \in 1..MaxQueries |-> IF k = 1 THEN "ask_failed" ELSE "none"]
    /\ cand = NoSql
    /\ disk = ensure_sample_loaded(NoTable, FreshDisk(TRUE)).disk
    /\ thr = [t \in Threads |-> Idle]
    /\ conns = [t \in Threads |-> 0]
    /\ detached = [k \in {} |-> k]

NextRetry ==
    \/ \E t \in Threads : retry_step(t)
    \/ \E t \in Threads : query_step(t)

SpecRetry == InitRetry /\ [][NextRetry]_vars

\* some retry for query_id k has executed its statement, removed the entry
\* and returned ok
Resolved(k) ==
    \E t \in Threads :
        /\ thr[t].op = "retry" /\ thr[t].query_id = k
        /\ thr[t].pc = "done" /\ thr[t].status = 200

\* thread t serves a retry for k whose statement failed, and has written
\* both its sql and its error
FailedAndWritten(t, k) ==
    /\ thr[t].op = "retry" /\ thr[t].query_id = k
    /\ thr[t].error # ""
    /\ thr[t].pc \in {"close", "done"}

(* C19: resolved is absorbing, also under concurrency: once a retry for a
   query_id has executed successfully and removed the entry, that query_id
   is never pending again, whatever a concurrent retry for the same id
   that fails writes afterwards and whatever asks are served. *)
C19_ResolvedAbsorbing ==
    \A k \in QueryIds : Resolved(k) => k \notin Pending

\* one retry resolved the id and another one for the same id failed and
\* has written its sql and error, which are the last ones written
C19_Witness ==
    \E t \in Threads :
        /\ Resolved(1)
        /\ FailedAndWritten(t, 1)
        /\ detached[1].sql = thr[t].sql
        /\ detached[1].error = thr[t].error
        /\ detached[1].sql # FirstSql

\* the executions that failed for query_id k: the statement and its error,
\* of the ask that recorded the entry and of every retry since
FailedAttempts(k) ==
    {<<FirstSql, FirstError>> : j \in {k} \cap {1}} \cup
    {<<thr[t].sql, thr[t].error>> :
        t \in {u \in Threads : thr[u].op \in {"query", "retry"}
                               /\ thr[u].query_id = k /\ thr[u].error # ""
                               /\ thr[u].pc \in {"store", "write_sql", "write_error",
                                                 "close", "done"}}}

\* no retry is between its write of sql and its write of error
NoWriteInProgress == \A t \in Threads : thr[t].pc # "write_error"

(* C20: when repairs for the same query_id run concurrently and fail at
   execution, the last write wins as a whole: whenever no failed repair is
   between its two writes, the pending entry's sql and error are those of
   one single failed attempt. *)
C20_LastWriteWinsWhole ==
    NoWriteInProgress =>
        \A k \in Pending : <<store[k].sql, store[k].error>> \in FailedAttempts(k)

---------------------------------------------------------------------------
(* load_csv_as_active, GET /schema, GET /preview and POST /sql statement by
   statement: every con.execute is its own autocommitted statement *)

\* the locals of a thread inside load_csv_as_active
LoadLocals(pc, csv, source, path_name) ==
    [pc |-> pc, op |-> "load", csv |-> csv, source |-> source,
     path_name |-> path_name, counted |-> NoTable, described |-> NoTable,
     error |-> "", status |-> 0, kind |-> ""]

\* the locals of a thread serving /schema or /preview: the table its first
\* and its second statement read
ReadLocals(pc, op) ==
    [pc |-> pc, op |-> op, first |-> NoTable, second |-> NoTable,
     error |-> "", status |-> 0, kind |-> "",
     dataset |-> [source |-> "", filename |-> "", columns |-> <<>>]]

\* use_demo(): load_csv_as_active(SAMPLE_CSV, ...), which raises when the
\* file is missing
use_demo_begin(t) ==
    /\ thr[t].pc = "idle"
    /\ calls < MaxCalls
    /\ calls' = calls + 1
    /\ thr' = [thr EXCEPT ![t] =
                 IF disk.sample THEN LoadLocals("drop", SampleCsv, "demo", SAMPLE_NAME)
                 ELSE Return(LoadLocals("done", SampleCsv, "demo", SAMPLE_NAME),
                             500, "FileNotFoundError")]
    /\ UNCHANGED <<store, nextId, table, resp, lastAttempt, cand, disk, conns, detached>>

\* upload_dataset(file): ACTIVE_CSV.write_bytes(content), then
\* load_csv_as_active(ACTIVE_CSV, ...), whose path now exists
upload_begin(t, file) ==
    /\ thr[t].pc = "idle"
    /\ calls < MaxCalls
    /\ calls' = calls + 1
    /\ disk' = [disk EXCEPT !.active = CsvFile(file)]
    /\ thr' = [thr EXCEPT ![t] = LoadLocals("drop", file, "upload", ACTIVE_NAME)]
    /\ UNCHANGED <<store, nextId, table, resp, lastAttempt, cand, conns, detached>>

\* con = get_conn(); con.execute("DROP TABLE IF EXISTS ds_active")
load_drop(t) ==
    /\ thr[t].pc = "drop" /\ thr[t].op = "load"
    /\ conns' = [conns EXCEPT ![t] = @ + 1]
    /\ table' = NoTable
    /\ thr' = [thr EXCEPT ![t].pc = "create"]
    /\ UNCHANGED <<store, nextId, resp, calls, lastAttempt, cand, disk, detached>>

load_create_KeepOpen(t) ==
    /\ thr[t].pc = "create" /\ thr[t].op = "load"
    /\ IF thr[t].csv.ok /\ ~table.exists
       THEN /\ table' = [exists |-> TRUE, columns |-> thr[t].csv.columns]
            /\ thr' = [thr EXCEPT ![t].pc = "count"]
       ELSE /\ UNCHANGED table
            /\ thr' = [thr EXCEPT ![t] =
                         Return([@ EXCEPT !.error = "CatalogException"],
                                500, "CatalogException")]
    /\ UNCHANGED <<store, nextId, resp, calls, lastAttempt, cand, disk, conns, detached>>

\* con.execute("CREATE TABLE ds_active AS SELECT * FROM read_csv_auto(?)"):
\* raises on a CSV it cannot read, and when a concurrent load has created
\* the table in the meantime
load_create(t) ==
    /\ thr[t].pc = "create" /\ thr[t].op = "load"
    /\ IF thr[t].csv.ok /\ ~table.exists
       THEN /\ table' = [exists |-> TRUE, columns |-> thr[t].csv.columns]
            /\ thr' = [thr EXCEPT ![t].pc = "count"]
       ELSE /\ UNCHANGED table
            /\ thr' = [thr EXCEPT ![t].pc = "close",
                                  ![t].error = IF thr[t].csv.ok THEN "CatalogException"
                                               ELSE "IOException"]
    /\ UNCHANGED <<store, nextId, resp, calls, lastAttempt, cand, disk, conns, detached>>

\* row_count = con.execute("SELECT COUNT(*) FROM ds_active")
load_count(t) ==
    /\ thr[t].pc = "count" /\ thr[t].op = "load"
    /\ thr' = [thr EXCEPT ![t].pc = IF table.exists THEN "describe" ELSE "close",
                          ![t].counted = table,
                          ![t].error = IF table.exists THEN "" ELSE "CatalogException"]
    /\ UNCHANGED <<store, nextId, table, resp, calls, lastAttempt, cand, disk, conns,
                   detached>>

\* rows = con.execute("DESCRIBE ds_active")
load_describe(t) ==
    /\ thr[t].pc = "describe" /\ thr[t].op = "load"
    /\ thr' = [thr EXCEPT ![t].pc = "close",
                          ![t].described = table,
                          ![t].error = IF table.exists THEN "" ELSE "CatalogException"]
    /\ UNCHANGED <<store, nextId, table, resp, calls, lastAttempt, cand, disk, conns,
                   detached>>

\* finally: con.close(); the exception propagates as a 500
load_close(t) ==
    /\ thr[t].pc = "close" /\ thr[t].op = "load"
    /\ conns' = [conns EXCEPT ![t] = @ - 1]
    /\ thr' = [thr EXCEPT ![t] =
                 IF @.error # "" THEN Return(@, 500, @.error)
                 ELSE [@ EXCEPT !.pc = "write_meta"]]
    /\ UNCHANGED <<store, nextId, table, resp, calls, lastAttempt, cand, disk, detached>>

\* _write_active_metadata(source, resolved_filename); return the metadata
load_write_meta(t) ==
    /\ thr[t].pc = "write_meta" /\ thr[t].op = "load"
    /\ disk' = [disk EXCEPT !.meta =
                   _write_active_metadata(thr[t].source,
                                          IF thr[t].csv.filename # ""
                                          THEN thr[t].csv.filename ELSE thr[t].path_name)]
    /\ thr' = [thr EXCEPT ![t] = Return(@, 200, "ok")]
    /\ UNCHANGED <<store, nextId, table, resp, calls, lastAttempt, cand, conns, detached>>

\* one statement of a thread serving /dataset/use-demo or /dataset/upload
load_step(t) ==
    \/ use_demo_begin(t)
    \/ \E file \in Uploads : upload_begin(t, file)
    \/ load_drop(t)
    \/ load_create(t)
    \/ load_count(t)
    \/ load_describe(t)
    \/ load_close(t)
    \/ load_write_meta(t)

\* get_active_schema() / preview(): con = get_conn() and the first
\* statement, DESCRIBE or SELECT * ... LIMIT 10 for the column names
read_first(t, op) ==
    /\ thr[t].pc = "idle"
    /\ calls < MaxCalls
    /\ calls' = calls + 1
    /\ conns' = [conns EXCEPT ![t] = @ + 1]
    /\ thr' = [thr EXCEPT ![t] =
                 [ReadLocals(IF table.exists THEN "second" ELSE "close", op)
                    EXCEPT !.first = table,
                           !.error = IF table.exists THEN "" ELSE "CatalogException"]]
    /\ UNCHANGED <<store, nextId, table, resp, lastAttempt, cand, disk, detached>>

\* the second statement: SELECT COUNT(*), or SELECT * ... LIMIT 10 for the rows
read_second(t) ==
    /\ thr[t].pc = "second" /\ thr[t].op \in {"schema", "preview"}
    /\ thr' = [thr EXCEPT ![t].pc = "close",
                          ![t].second = table,
                          ![t].error = IF table.exists THEN "" ELSE "CatalogException"]
    /\ UNCHANGED <<store, nextId, table, resp, calls, lastAttempt, cand, disk, conns,
                   detached>>

\* finally: con.close(); preview returns, get_active_schema goes on to the
\* sidecar
read_close(t) ==
    /\ thr[t].pc = "close" /\ thr[t].op \in {"schema", "preview"}
    /\ conns' = [conns EXCEPT ![t] = @ - 1]
    /\ thr' = [thr EXCEPT ![t] =
                 IF @.error # "" THEN Return(@, 500, @.error)
                 ELSE IF @.op = "preview"
                 THEN Return([@ EXCEPT !.dataset.columns = thr[t].first.columns], 200, "ok")
                 ELSE [@ EXCEPT !.pc = "read_meta"]]
    /\ UNCHANGED <<store, nextId, table, resp, calls, lastAttempt, cand, disk, detached>>

\* get_active_schema(): meta = _read_active_metadata() and the heuristic,
\* applied to the rows DESCRIBE returned
schema_read_meta(t) ==
    /\ thr[t].pc = "read_meta" /\ thr[t].op = "schema"
    /\ LET result == get_active_schema(thr[t].first, disk)
       IN  thr' = [thr EXCEPT ![t] =
                     IF result.raised # ""
                     THEN Return([@ EXCEPT !.error = result.raised], 500, result.raised)
                     ELSE Return([@ EXCEPT !.dataset =
                                     [source |-> result.source,
                                      filename |-> result.filename,
                                      columns |-> result.columns]], 200, "ok")]
    /\ UNCHANGED <<store, nextId, table, resp, calls, lastAttempt, cand, disk, conns,
                   detached>>

\* one statement of a thread serving /schema or /preview
read_step(t) ==
    \/ \E op \in {"schema", "preview"} : read_first(t, op)
    \/ read_second(t)
    \/ read_close(t)
    \/ schema_read_meta(t)

\* the locals of a thread serving /sql
SqlLocals(pc, sql) ==
    [pc |-> pc, op |-> "run_sql", sql |-> sql, error |-> "", status |-> 0, kind |-> ""]

\* run_sql: the guardrail and ensure_limit
run_sql_begin(t, sql) ==
    /\ thr[t].pc = "idle"
    /\ calls < MaxCalls
    /\ calls' = calls + 1
    /\ thr' = [thr EXCEPT ![t] =
                 IF ~guardrail[sql].safe
                 THEN Return(SqlLocals("done", sql), 400, "unsafe_sql")
                 ELSE IF ~guardrail[sql].scoped
                 THEN Return(SqlLocals("done", sql), 400, "wrong_table")
                 ELSE SqlLocals("execute", guardrail[sql].limited)]
    /\ UNCHANGED <<store, nextId, table, resp, lastAttempt, cand, disk, conns, detached>>

\* con = get_conn(); con.execute(sql) and the fetch, or the exception
run_sql_execute(t, out) ==
    /\ thr[t].pc = "execute" /\ thr[t].op = "run_sql"
    /\ conns' = [conns EXCEPT ![t] = @ + 1]
    /\ thr' = [thr EXCEPT ![t].pc = "close",
                          ![t].error = IF out = "ok" THEN "" ELSE out]
    /\ UNCHANGED <<store, nextId, table, resp, calls, lastAttempt, cand, disk, detached>>

\* finally: con.close(); return the rows, or the 400
run_sql_close(t) ==
    /\ thr[t].pc = "close" /\ thr[t].op = "run_sql"
    /\ conns' = [conns EXCEPT ![t] = @ - 1]
    /\ thr' = [thr EXCEPT ![t] =
                 IF @.error # "" THEN Return(@, 400, "sql_execution_error")
                 ELSE Return(@, 200, "ok")]
    /\ UNCHANGED <<store, nextId, table, resp, calls, lastAttempt, cand, disk, detached>>

\* one statement of a thread serving /sql
run_sql_step(t) ==
    \/ \E sql \in Candidates : run_sql_begin(t, sql)
    \/ \E out \in Outcomes : run_sql_execute(t, out)
    \/ run_sql_close(t)

\* a dataset request and a reader in flight
NextLoad ==
    \/ \E t \in Threads : load_step(t)
    \/ \E t \in Threads : read_step(t)

SpecLoad == InitRetry /\ [][NextLoad]_vars

\* any two requests in flight
NextThreads ==
    \/ \E t \in Threads : run_sql_step(t)
    \/ \E t \in Threads : query_step(t)
    \/ \E t \in Threads : retry_step(t)
    \/ \E t \in Threads : read_step(t)
    \/ \E t \in Threads : load_step(t)

SpecThreads == InitRetry /\ [][NextThreads]_vars

\* every load served so far, finished or in flight, is of a CSV the bulk
\* loader accepts
OnlyReadableLoads == \A u \in Threads : thr[u].op = "load" => thr[u].csv.ok

\* thread t has served a /schema or /preview read to its end
ReadDone(t) == thr[t].op \in {"schema", "preview"} /\ thr[t].pc = "done"

(* C11: dataset replacement is atomic with respect to readers: with a table
   active before the load and a CSV the loader accepts, a schema or preview
   read that runs concurrently observes the complete old table or the
   complete new one: it never finds the table missing or without columns,
   and both of its statements read the same table. *)
C11_AtomicReplacement ==
    OnlyReadableLoads =>
        \A t \in Threads :
            ReadDone(t) =>
                /\ thr[t].error # "CatalogException"
                /\ thr[t].first.exists /\ thr[t].second.exists
                /\ thr[t].first.columns # <<>>
                /\ thr[t].first = thr[t].second

\* thread t is not inside a request: it serves none, or it has returned
Returned(t) == thr[t].pc \in {"idle", "done"}

(* C16: every connection opened by run_sql, ask, retry, preview,
   current_schema or load is released on every exit path: a thread that has
   returned, with a result or with an error, holds no open connection, and
   no thread ever holds more than one. *)
C16_ConnectionsReleased ==
    \A t \in Threads :
        /\ conns[t] \in {0, 1}
        /\ Returned(t) => conns[t] = 0

\* a statement failed in one request and a load failed in another, and both
\* threads have returned
C16_Witness ==
    \E t, u \in Threads :
        /\ thr[t].pc = "done" /\ thr[t].kind = "sql_execution_error"
        /\ thr[u].pc = "done" /\ thr[u].op = "load" /\ thr[u].status = 500
        /\ thr[u].error # ""
        /\ conns[t] = 0 /\ conns[u] = 0

=============================================================================
